---------------------------- MODULE Spec2Model ----------------------------
(***************************************************************************)
(* Model of the acme-tls-alpn-01 crate: the certificate resolver           *)
(* (src/src/resolver.rs), the construction of the Acme object              *)
(* (src/src/client.rs) and the order driver (src/src/order.rs,             *)
(* src/src/lib.rs), together with the TLS handshakes that call resolve     *)
(* from other threads and the CA that answers the driver's requests.       *)
(*                                                                         *)
(* The resolver map is a flashmap: the writer changes its own copy through *)
(* a write guard and the changes become visible to readers when the guard  *)
(* is dropped.  `wmap` is the writer's copy, `published` the snapshot the  *)
(* readers see.                                                            *)
(***************************************************************************)
EXTENDS Integers, Sequences, FiniteSets, TLC

\* ------------------------------------------------------------------ bounds

\* Number of request_certificates calls made on the Acme object.
MaxCalls == 2

\* ------------------------------------------------------------ value domains

\* The domains given at construction (client.rs:30).
Domains == {"a.test", "b.test"}
\* A server name that was not given at construction.
Stranger == "x.test"
\* client_hello.server_name() == None
NoSni == "<none>"
ServerNames == Domains \cup {Stranger}

\* A client hello: its server name and whether its ALPN list holds acme-tls/1.
Hellos == [sni : ServerNames \cup {NoSni}, acme : BOOLEAN]
NoHello == [sni |-> "<idle>", acme |-> FALSE]

\* Certified keys.  A production key is the one given at construction or a
\* self-signed one; a challenge key is the certificate generated for a
\* challenge (Challenge::certificate, challenge.rs:76-99), named by its
\* domain and the request_certificates call that generated it.
NoKey == [kind |-> "none", dom |-> "", call |-> 0]
GivenKey(d) == [kind |-> "given", dom |-> d, call |-> 0]
create_self_signed_certificate(d) ==
    [kind |-> "selfsigned", dom |-> d, call |-> 0]
ChallengeCertificate(d, c) == [kind |-> "challenge", dom |-> d, call |-> c]

\* The notifier of an entry: none, the sender of live channel `id` of the
\* running retry, or a sender whose receiver has been dropped.
NoNotifier == [st |-> "none", id |-> 0]
DeadNotifier == [st |-> "dead", id |-> 0]
LiveNotifier(i) == [st |-> "live", id |-> i]

\* DomainResolver (resolver.rs:16-20)
DomainResolver(k, ck, n) == [key |-> k, challenge_key |-> ck, notifier |-> n]

OrderStatuses == {"pending", "ready", "valid", "invalid", "processing"}
\* AuthorizationStatus (authorization.rs:23-36); "revoked" stands for the
\* four statuses that are neither valid nor pending, which the driver does
\* not tell apart (order.rs:282-287).
AuthorizationStatuses == {"pending", "valid", "revoked"}
ChallengeStatuses == {"pending", "processing", "valid", "invalid"}
\* The challenge lists an authorization may carry.
ChallengeLists == {<<"http-01">>, <<"http-01", "tls-alpn-01">>}
Authorizations ==
    [identifier : ServerNames, status : AuthorizationStatuses,
     challenges : ChallengeLists]

\* A success that carries the key of the first CSR of the call.
OkFirstCsr(c) == [kind |-> "ok", err |-> "", csr |-> 1, domains |-> {}]

\* Results of a call and of one retry iteration.  An Ok stands for the key
\* PEM of CSR c joined with the downloaded chain (order.rs:488).
NoResult == [kind |-> "none", err |-> "", csr |-> 0, domains |-> {}]
Ok(c) == [kind |-> "ok", err |-> "", csr |-> c, domains |-> {}]
Err(e) == [kind |-> "err", err |-> e, csr |-> 0, domains |-> {}]
OrderProcessing(c) ==
    [kind |-> "err", err |-> "OrderProcessing", csr |-> c, domains |-> {}]
Panic == [kind |-> "panic", err |-> "", csr |-> 0, domains |-> {}]

\* An InvalidOrder that names no domain.
InvalidOrderNoNames(ds) == Err("InvalidOrder")

\* ErrorKind::InvalidOrder { domains } (order.rs:242-251, 358-368)
InvalidOrder(ds) ==
    [kind |-> "err", err |-> "InvalidOrder", csr |-> 0, domains |-> ds]

\* self.order.identifiers: the DNS names of the order object, which are
\* those new_order asked for (order.rs:96-101).
OrderIdentifiers == Domains

\* No response with an order status has been parsed yet.
NoStatus == "none"

\* Option::None of jose's kid parameter, and no jwk in the header.
NoKid == "none"
NoJwk == [kty |-> "none", key |-> "none"]

\* The AccountMaterial of the caller (account.rs:17-24) and the key pair
\* update_key generates (account.rs:268-269).
Account == [keypair |-> "key1", url |-> "acct/1"]
RolloverKeypair == "key2"

\* The functions that sign a request: AccountMaterial::new_account,
\* from_json, update_contact, update_key; LocatedOrder::new_order, try_get,
\* finalize, download_certificate; Authorization::authorize;
\* Challenge::accept.
RequestSites ==
    {"new_account", "from_json", "update_contact", "update_key", "new_order",
     "try_get", "finalize", "download", "authorize", "accept"}

\* The caller's task runs the request functions one after the other; the
\* futures of try_join_all (order.rs:274-280) run authorize concurrently,
\* one per authorization URL.
CallerTask == "caller"
AuthorizeTasks == {"authz1", "authz2"}
Tasks == {CallerTask} \cup AuthorizeTasks
SitesOf(t) == IF t = CallerTask THEN RequestSites ELSE {"authorize"}

\* A task outside every request function.
IdleRequest == [site |-> "none", at |-> "idle", nonce |-> 0]

\* The JSON of a PackedAccountMaterial (account.rs:26-31) as from_json
\* meets it: well-formed with a usable key, not parseable, or with pkcs8
\* bytes ring rejects.
StoredJsons ==
    [decode : {"ok", "bad_json", "bad_key"},
     pkcs8 : {"p1", "p2"},
     url : {"acct/1", "acct/2"}]
NoJson == [decode |-> "none", pkcs8 |-> "", url |-> ""]

\* keypair_from_pkcs8 (ecdsa.rs:23-27): the key pair is a function of the
\* pkcs8 bytes.
keypair_from_pkcs8(pkcs8) == [of |-> pkcs8]

\* AccountMaterial (account.rs:17-24)
AccountMaterial(keypair, pkcs8, url) ==
    [keypair |-> keypair, pkcs8 |-> pkcs8, url |-> url]
NoMaterial == AccountMaterial(keypair_from_pkcs8(""), "", "")

\* Result<AccountMaterial>
NoAccount == [kind |-> "none", err |-> "", material |-> NoMaterial]
AccountOk(m) == [kind |-> "ok", err |-> "", material |-> m]
AccountErr(e) == [kind |-> "err", err |-> e, material |-> NoMaterial]

\* What post_jose gives the account functions: an error of the transport
\* (code 0), or a response with its status code, the status member of its
\* body ("unparsable" when body_as_json fails) and its location header
\* ("" when there is none).
AccountStatuses == {"valid", "deactivated", "revoked"}
StatusCodes == {200, 201, 400, 403, 404, 500}
Responses ==
    [code : StatusCodes \cup {0},
     status : AccountStatuses \cup {"unparsable"},
     location : {"", "acct/3", "acct/4"}]
NoResponse == [code |-> -1, status |-> "", location |-> ""]

\* Response::is_success (reqwest_client.rs:101-103)
is_success(resp) == resp.code >= 200 /\ resp.code <= 299

\* No JSON text.
NoText == [none |-> TRUE]

\* What one send of the transport meets: Err(_) of send().await, or a
\* response with a status code (reqwest_client.rs:17-18).
SendOutcomes == {"err", "200", "404", "429", "503", "504"}

\* What get_request / post_jose returns: the response or an error.
NoReturn == [kind |-> "none", err |-> "", status |-> ""]
HttpOk(status) == [kind |-> "response", err |-> "", status |-> status]
HttpErr(e) == [kind |-> "err", err |-> e, status |-> ""]

VARIABLES
    published,   \* the snapshot of the resolver map the readers see
    wmap,        \* the writer's copy of the resolver map
    guardHeld,   \* retry holds the write guard (order.rs:293)
    pc,          \* the driver's position
    calls,       \* request_certificates calls started so far
    orderStatus, \* self.order.status, as new_order returned it
    delays,      \* process: the delays vector (order.rs:158)
    csrArg,      \* retry's csr parameter (0: None)
    csr,         \* the Csr in scope in finalize / download (0: none)
    csrCount,    \* CSRs generated in the current call
    targets,     \* the domains of the tls-alpn-01 challenges of the pending
                 \* authorizations, in the order the loops visit them
    ti,          \* index in targets of the challenge being handled
    pending,     \* pending_challenges: indices whose receiver is awaited
    buf,         \* per live channel: number of buffered values
    tx,          \* per live channel: where its sender is
    got,         \* per live channel: values its receiver obtained
    pollDelays,  \* retry: the delays vector of the order poll (order.rs:349)
    retres,      \* the result retry is returning
    result,      \* the result of the last request_certificates call
    slept,       \* seconds of Delay the driver's last step awaited
    hello,       \* the client hello of the handshake in resolve
    res,         \* what resolve returned for it
    sendRes,     \* what try_send returned in that resolve
    shaken,      \* domains whose acme-tls/1 handshake reached resolve
                 \* during the current challenge wait
    stalled,     \* retry: some pending authorization fetched at order.rs:280
                 \* offers no tls-alpn-01 challenge
    observed,    \* the order status in the last response the current call
                 \* parsed (new_order, try_get or finalize)
    httpPc,      \* get_request / post_jose: the position in its loop
    method,      \* which of the two the running request is
    retry_count, \* its retry_count (reqwest_client.rs:15, 57)
    httpLog,     \* what each of its sends met, in order
    httpWaits,   \* the seconds of Delay it awaited, in order
    httpResult,  \* what it returned
    httpBody,    \* post_jose: its `body` argument
    httpSent,    \* the body each of its sends carried, in order
    issued,      \* the CA's log of the new_nonce calls it answered: the
                 \* n-th entry names who was given nonce n
    reqs,        \* per task: the request function it runs, its position
                 \* and its local `nonce`
    built,       \* every JWS jose has built
    wire,        \* the bodies handed to post_jose, in order
    stored,      \* the JSON given to the last from_json call
    account,     \* from_json: the AccountMaterial restored from it
    accPc,       \* from_json: its position
    response,    \* from_json: the response of the account lookup
    accRequests, \* the requests the running from_json call has sent
    accResult,   \* what from_json returns
    returned,    \* the materials earlier calls returned for the same JSON
    self,        \* update_key: the AccountMaterial it is called on
    rollPc,      \* update_key: its position
    pkcs8,       \* update_key: the pkcs8 it generated
    keyChange,   \* update_key: the response to the key-change request
    rollResult,  \* what update_key returned last
    generated,   \* key pairs the random generator has produced
    material,    \* the AccountMaterial to_json is called on
    jsonText,    \* the JSON text to_json returned
    decoded      \* what decoding that text gave

vars == <<published, wmap, guardHeld, pc, calls, orderStatus, delays, csrArg,
          csr, csrCount, targets, ti, pending, buf, tx, got, pollDelays,
          retres, result, slept, hello, res, sendRes, shaken, stalled,
          observed,
          httpPc, method, retry_count, httpLog, httpWaits, httpResult,
          httpBody, httpSent,
          issued, reqs, built, wire,
          stored, account, accPc, response, accRequests, accResult,
          returned,
          self, rollPc, pkcs8, keyChange, rollResult, generated,
          material, jsonText, decoded>>

mapVars == <<published, wmap, guardHeld>>
chanVars == <<pending, buf, tx, got>>
procVars == <<calls, orderStatus, delays, csrArg, csrCount, result>>
retryLocals == <<targets, ti, pollDelays, csr>>
readerVars == <<hello, res, sendRes>>
transportVars == <<httpPc, method, retry_count, httpLog, httpWaits,
                   httpResult, httpBody, httpSent>>
requestVars == <<issued, reqs, built, wire>>
accountVars == <<stored, account, accPc, response, accRequests, accResult,
                 returned>>
rolloverVars == <<self, rollPc, pkcs8, keyChange, rollResult, generated>>
codecVars == <<material, jsonText, decoded>>
\* What the order driver and resolve never touch.
sideVars == <<transportVars, requestVars, accountVars, rolloverVars,
              codecVars>>
\* What the transport, the request builders, from_json and update_key each
\* leave alone of it.
besidesTransport == <<requestVars, accountVars, rolloverVars, codecVars>>
besidesRequests == <<transportVars, accountVars, rolloverVars, codecVars>>
besidesAccount == <<transportVars, requestVars, rolloverVars, codecVars>>
besidesRollover == <<transportVars, requestVars, accountVars, codecVars>>
besidesCodec == <<transportVars, requestVars, accountVars, rolloverVars>>
\* What the transport, the request builders and the account functions never
\* touch.
driverVars == <<mapVars, chanVars, procVars, retryLocals, readerVars, pc,
                retres, slept, shaken, stalled, observed>>

\* self.order.authorizations: the order holds one authorization URL per
\* identifier, and new_order asks for one identifier per domain
\* (order.rs:96-99).
AuthzUrls == 1..Cardinality(Domains)
\* The channels of one retry, one per tls-alpn-01 challenge handled, named by
\* the challenge's index in targets.
Channels == AuthzUrls

\* ---------------------------------------------------------------- resolver

\* resolve with the production key as a fallback when an acme-tls/1 hello
\* finds no challenge key.
resolve_fallback(m, h) ==
    IF h.sni # NoSni /\ h.sni \in DOMAIN m
    THEN IF h.acme /\ m[h.sni].challenge_key # NoKey
         THEN m[h.sni].challenge_key
         ELSE m[h.sni].key
    ELSE NoKey

\* CertResolver::resolve (resolver.rs:51-83): the key returned for hello h
\* when the reader's snapshot is m.
resolve(m, h) ==
    IF h.sni # NoSni
    THEN IF h.acme
         THEN IF h.sni \in DOMAIN m
              THEN IF m[h.sni].challenge_key # NoKey
                   THEN m[h.sni].challenge_key
                   ELSE NoKey
              ELSE NoKey
         ELSE IF h.sni \in DOMAIN m
              THEN m[h.sni].key
              ELSE NoKey
    ELSE NoKey

\* The notifier signalled whatever the ALPN list of the hello.
SignalledNotifierAnyAlpn(m, h) ==
    IF /\ h.sni # NoSni
       /\ h.sni \in DOMAIN m
       /\ m[h.sni].challenge_key # NoKey
    THEN m[h.sni].notifier
    ELSE NoNotifier

\* The notifier resolve signals for hello h (resolver.rs:58-64), or
\* NoNotifier when it signals none.
SignalledNotifier(m, h) ==
    IF /\ h.sni # NoSni
       /\ h.acme
       /\ h.sni \in DOMAIN m
       /\ m[h.sni].challenge_key # NoKey
    THEN m[h.sni].notifier
    ELSE NoNotifier

\* try_send on a channel made by flume::unbounded().
TrySendUnbounded(n, b) ==
    CASE n.st = "none" -> "not_sent"
      [] n.st = "dead" -> "disconnected"
      [] OTHER -> "sent"

\* flume's try_send on a channel made by flume::bounded(1) (order.rs:300):
\* the outcome for a sender n when b values are buffered.
TrySendResult(n, b) ==
    CASE n.st = "none" -> "not_sent"
      [] n.st = "dead" -> "disconnected"
      [] n.st = "live" /\ b >= 1 -> "full"
      [] OTHER -> "sent"

\* The map the writer mutates while it holds its guard; resolve has no
\* handle on it.
WriterCopy == wmap

\* self.reader.guard() (resolver.rs:58, 73): the snapshot last published by
\* the writer; taking it waits for nobody.
ReaderSnapshot == published

\* A TLS handshake calls resolve (resolver.rs:51-83).  It takes no lock and
\* awaits nothing: it is enabled whatever the driver is doing.
Resolve(h) ==
    /\ hello = NoHello
    /\ LET n == SignalledNotifier(ReaderSnapshot, h)
           r == TrySendResult(n, IF n.st = "live" THEN buf[n.id] ELSE 0)
       IN /\ sendRes' = r
          /\ buf' = IF r = "sent" THEN [buf EXCEPT ![n.id] = @ + 1] ELSE buf
    /\ hello' = h
    /\ res' = resolve(ReaderSnapshot, h)
    /\ shaken' = IF pc = "wait" /\ h.acme /\ h.sni \in Domains
                 THEN shaken \cup {h.sni}
                 ELSE shaken
    /\ UNCHANGED stalled
    /\ UNCHANGED <<mapVars, pc, procVars, retryLocals, pending, tx, got,
                   retres, slept>>
    /\ UNCHANGED observed
    /\ UNCHANGED sideVars

\* The handshake goes on with the key resolve returned.
ResolveReturn ==
    /\ hello # NoHello
    /\ hello' = NoHello
    /\ res' = NoKey
    /\ sendRes' = "not_sent"
    /\ UNCHANGED <<mapVars, pc, procVars, retryLocals, chanVars, retres,
                   slept, shaken, stalled>>
    /\ UNCHANGED observed
    /\ UNCHANGED sideVars

\* ------------------------------------------------------------ construction

\* Construction that inserts an entry only for the domains given with a key.
from_given_keys_only(given) ==
    [d \in given |-> DomainResolver(GivenKey(d), NoKey, NoNotifier)]

\* Acme::from_client_and_domain_keys (client.rs:28-52): one entry per domain,
\* with the key given for it or a self-signed one; each insert is published
\* when its guard is dropped at the end of the statement.
\* The inserts of client.rs:33-44 for the names the iterator yields: the
\* key of the map is the name as the caller wrote it.
insert_domain_names(names, given) ==
    [d \in names |->
        DomainResolver(IF d \in given THEN GivenKey(d)
                       ELSE create_self_signed_certificate(d),
                       NoKey, NoNotifier)]

from_client_and_domain_keys(given) == insert_domain_names(Domains, given)

\* The domains for which the caller gives a key at construction.
GivenAtConstruction == {"a.test"}

\* No call is running and no handshake is in resolve.
DriverIdle ==
    /\ guardHeld = FALSE
    /\ pc = "idle"
    /\ calls = 0
    /\ orderStatus = "pending"
    /\ delays = <<>>
    /\ csrArg = 0
    /\ csr = 0
    /\ csrCount = 0
    /\ targets = <<>>
    /\ ti = 1
    /\ pending = {}
    /\ buf = [c \in Channels |-> 0]
    /\ tx = [c \in Channels |-> "unused"]
    /\ got = [c \in Channels |-> 0]
    /\ pollDelays = <<>>
    /\ retres = NoResult
    /\ result = NoResult
    /\ slept = 0
    /\ hello = NoHello
    /\ res = NoKey
    /\ sendRes = "not_sent"
    /\ shaken = {}
    /\ stalled = FALSE
    /\ observed = NoStatus

\* No request is in the transport.
TransportIdle ==
    /\ httpPc = "idle"
    /\ method = "none"
    /\ retry_count = 0
    /\ httpLog = <<>>
    /\ httpWaits = <<>>
    /\ httpResult = NoReturn
    /\ httpBody = NoText
    /\ httpSent = <<>>

\* No request function is running and nothing has been signed.
RequestsIdle ==
    /\ issued = <<>>
    /\ reqs = [t \in Tasks |-> IdleRequest]
    /\ built = {}
    /\ wire = <<>>

\* No from_json call has been made.
AccountIdle ==
    /\ stored = NoJson
    /\ account = NoMaterial
    /\ accPc = "idle"
    /\ response = NoResponse
    /\ accRequests = <<>>
    /\ accResult = NoAccount
    /\ returned = {}

\* update_key has not been called.
RolloverIdle ==
    /\ self = NoMaterial
    /\ rollPc = "idle"
    /\ pkcs8 = ""
    /\ keyChange = NoResponse
    /\ rollResult = NoAccount
    /\ generated = 0

\* Nothing has been serialized.
CodecIdle ==
    /\ material = NoMaterial
    /\ jsonText = NoText
    /\ decoded = NoAccount

SideIdle ==
    TransportIdle /\ RequestsIdle /\ AccountIdle /\ RolloverIdle /\ CodecIdle

Init ==
    /\ published = from_client_and_domain_keys(GivenAtConstruction)
    /\ wmap = published
    /\ DriverIdle
    /\ SideIdle

\* ------------------------------------------------------------------ driver

\* Delay::new(Duration::from_secs(120)) (order.rs:327)
ChallengeTimeout == 120
\* vec![10u64, 150u64] (order.rs:158 and order.rs:349)
DelaysVec == <<10, 150>>
\* A pop that leaves the vector as it is.
PopKeep(v) == v

\* Vec::pop: the last element is removed and returned.
PopValue(v) == v[Len(v)]
PopRest(v) == SubSeq(v, 1, Len(v) - 1)

\* A return from retry (an Err, an Ok or a panic that unwinds): the locals
\* are dropped, the write guard first when it is held (order.rs:292-293).
Exit(r) ==
    /\ retres' = r
    /\ pc' = IF guardHeld THEN "drop_guard" ELSE "process"
    /\ targets' = <<>>
    /\ ti' = 1
    /\ pollDelays' = <<>>
    /\ csr' = 0
    /\ shaken' = {}
    /\ stalled' = FALSE

\* The domains of the tls-alpn-01 challenges of challenge list cs.
RECURSIVE ChallengeTargets(_, _)
ChallengeTargets(d, cs) ==
    IF cs = <<>> THEN <<>>
    ELSE (IF Head(cs) = "tls-alpn-01" THEN <<d>> ELSE <<>>)
         \o ChallengeTargets(d, Tail(cs))

\* The loops of order.rs:294-298: every tls-alpn-01 challenge of every
\* pending authorization, in order.
RECURSIVE Targets(_)
Targets(auths) ==
    IF auths = <<>> THEN <<>>
    ELSE (IF Head(auths).status = "pending"
          THEN ChallengeTargets(Head(auths).identifier, Head(auths).challenges)
          ELSE <<>>)
         \o Targets(Tail(auths))

\* Acme::request_certificates (lib.rs:85-94): LocatedOrder::new_order
\* (order.rs:88-132) and the start of process (order.rs:158-159).
NewOrder(resp) ==
    /\ pc = "idle"
    /\ calls < MaxCalls
    /\ calls' = calls + 1
    /\ slept' = 0
    /\ IF resp \in OrderStatuses
       THEN /\ orderStatus' = resp
            /\ delays' = DelaysVec
            /\ pc' = "retry"
            /\ result' = NoResult
       ELSE /\ result' = Err(IF resp = "nonce_err" THEN "NewNonce" ELSE "NewOrder")
            /\ pc' = "idle"
            /\ UNCHANGED <<orderStatus, delays>>
    /\ UNCHANGED <<mapVars, csrArg, csrCount, retryLocals, chanVars, retres,
                   readerVars, shaken, stalled>>
    /\ observed' = IF resp \in OrderStatuses THEN resp ELSE NoStatus
    /\ UNCHANGED sideVars

\* LocatedOrder::retry, the match on self.order.status (order.rs:240-272).
Retry ==
    /\ pc = "retry"
    /\ slept' = 0
    /\ CASE orderStatus = "invalid" ->
              Exit(InvalidOrder(OrderIdentifiers))
         [] orderStatus = "ready" ->
              /\ pc' = "finalize"
              /\ UNCHANGED <<retres, retryLocals, shaken, stalled>>
         [] orderStatus = "valid" ->
              IF csrArg # 0
              THEN /\ pc' = "download"
                   /\ csr' = csrArg
                   /\ UNCHANGED <<retres, targets, ti, pollDelays, shaken, stalled>>
              ELSE Exit(Err("NewOrder"))
         [] orderStatus = "processing" ->
              Exit(IF csrArg # 0 THEN OrderProcessing(csrArg)
                   ELSE Err("NewOrder"))
         [] OTHER ->
              /\ pc' = "authorize"
              /\ UNCHANGED <<retres, retryLocals, shaken, stalled>>
    /\ UNCHANGED <<mapVars, procVars, chanVars, readerVars>>
    /\ UNCHANGED observed
    /\ UNCHANGED sideVars

\* Authorization::authorize fails for one of the authorizations
\* (authorization.rs:54-79; try_join_all, order.rs:280).
AuthorizeFails(failure) ==
    /\ pc = "authorize"
    /\ slept' = 0
    /\ Exit(Err(IF failure = "nonce_err" THEN "NewNonce" ELSE "GetAuthorization"))
    /\ UNCHANGED <<mapVars, procVars, chanVars, readerVars>>
    /\ UNCHANGED observed
    /\ UNCHANGED sideVars

\* A check that lets every authorization status pass.
NoneRefused(auths) == FALSE

\* Some authorization is neither valid nor pending (order.rs:282-287).
AnyRefused(auths) ==
    \E i \in DOMAIN auths : auths[i].status \notin {"valid", "pending"}

\* The authorizations are fetched and checked, and the write guard is taken
\* (order.rs:274-293).
Authorize(auths) ==
    /\ pc = "authorize"
    /\ slept' = 0
    /\ IF AnyRefused(auths)
       THEN /\ Exit(Err("InvalidAuthorization"))
            /\ UNCHANGED <<guardHeld, chanVars>>
       ELSE /\ guardHeld' = TRUE
            /\ targets' = Targets(auths)
            /\ ti' = 1
            /\ pending' = {}
            /\ buf' = [c \in Channels |-> 0]
            /\ tx' = [c \in Channels |-> "unused"]
            /\ got' = [c \in Channels |-> 0]
            /\ pc' = "install"
            /\ stalled' = \E i \in DOMAIN auths :
                             /\ auths[i].status = "pending"
                             /\ \A k \in DOMAIN auths[i].challenges :
                                    auths[i].challenges[k] # "tls-alpn-01"
            /\ UNCHANGED <<retres, pollDelays, csr, shaken>>
    /\ UNCHANGED <<published, wmap, procVars, readerVars>>
    /\ UNCHANGED observed
    /\ UNCHANGED sideVars

\* An insert that builds the entry from scratch, production key included.
InstalledEntryFreshKey(old, d, i) ==
    DomainResolver(create_self_signed_certificate(d),
                   ChallengeCertificate(d, calls), LiveNotifier(i))

InstalledEntryNoNotifier(old, d, i) ==
    DomainResolver(old.key, ChallengeCertificate(d, calls), NoNotifier)

\* guard.insert of the entry with the challenge key and the sender
\* (order.rs:299-309): the production key is cloned from the entry found.
InstalledEntry(old, d, i) ==
    DomainResolver(old.key, ChallengeCertificate(d, calls), LiveNotifier(i))

\* The sender an insert evicts from the writer's copy.
Evict(t, old) ==
    IF old.notifier.st = "live"
    THEN [t EXCEPT ![old.notifier.id] = "evicted"]
    ELSE t

\* One turn of the loops of order.rs:294-324 up to the accept request, or
\* the end of the loops and the start of the wait (order.rs:327).
\* utf8: the digest of the key authorization is valid UTF-8
\* (challenge.rs:65-72); certOk: rcgen builds the certificate
\* (challenge.rs:85-88).
Install(utf8, certOk) ==
    /\ pc = "install"
    /\ slept' = 0
    /\ IF ti > Len(targets)
       THEN /\ pc' = "wait"
            /\ shaken' = {}
            /\ UNCHANGED stalled
            /\ UNCHANGED <<wmap, tx, retres, retryLocals>>
       ELSE LET d == targets[ti]
            IN IF d \notin DOMAIN wmap \/ ~utf8
               THEN /\ Exit(Panic)
                    /\ UNCHANGED <<wmap, tx>>
               ELSE IF ~certOk
               THEN /\ Exit(Err("Challenge"))
                    /\ UNCHANGED <<wmap, tx>>
               ELSE /\ wmap' = [wmap EXCEPT ![d] = InstalledEntry(@, d, ti)]
                    /\ tx' = [Evict(tx, wmap[d]) EXCEPT ![ti] = "held"]
                    /\ pc' = "accept"
                    /\ UNCHANGED <<retres, retryLocals, shaken, stalled>>
    /\ UNCHANGED <<published, guardHeld, procVars, pending, buf, got,
                   readerVars>>
    /\ UNCHANGED observed
    /\ UNCHANGED sideVars

\* An entry after the receiver of channel c has been dropped.
Disconnect(e, c) ==
    IF e.notifier = LiveNotifier(c)
    THEN [e EXCEPT !.notifier = DeadNotifier]
    ELSE e

\* Challenge::accept (challenge.rs:108-141) and the match on the status it
\* returns (order.rs:310-320).
Accept(resp) ==
    /\ pc = "accept"
    /\ slept' = 0
    /\ CASE resp \in {"pending", "processing"} ->
              /\ pending' = pending \cup {ti}
              /\ ti' = ti + 1
              /\ pc' = "install"
              /\ UNCHANGED <<wmap, retres, targets, pollDelays, csr, shaken, stalled>>
         [] resp = "valid" ->
              /\ wmap' = [d \in DOMAIN wmap |-> Disconnect(wmap[d], ti)]
              /\ ti' = ti + 1
              /\ pc' = "install"
              /\ UNCHANGED <<pending, retres, targets, pollDelays, csr, shaken, stalled>>
         [] OTHER ->
              /\ Exit(Err(IF resp = "nonce_err" THEN "NewNonce" ELSE "Challenge"))
              /\ UNCHANGED <<wmap, pending>>
    /\ UNCHANGED <<published, guardHeld, procVars, buf, tx, got, readerVars>>
    /\ UNCHANGED observed
    /\ UNCHANGED sideVars

\* A wait whose timer ends the stream instead of failing the call.
WaitOutcomesLenient == {[t |-> "none", c |-> 0]}

\* What select(delay, pending_challenges.next()) can yield (order.rs:329-342):
\* the end of the stream, the timer, a value of a receiver, or the failure
\* of a receiver whose sender is gone.  A value sent before the deadline
\* wakes the driver before the deadline: the timer wins only when no awaited
\* receiver holds a value.
WaitOutcomes ==
    IF pending = {}
    THEN {[t |-> "none", c |-> 0]}
    ELSE {[t |-> "timer", c |-> 0] : x \in {y \in {0} : \A c \in pending : buf[c] = 0}}
         \cup {[t |-> "value", c |-> c] : c \in {x \in pending : buf[x] > 0}}
         \cup {[t |-> "closed", c |-> c] :
                 c \in {x \in pending : buf[x] = 0 /\ tx[x] = "dropped"}}

\* One turn of the wait loop (order.rs:327-343).
Wait(o) ==
    /\ pc = "wait"
    /\ o \in WaitOutcomes
    /\ CASE o.t = "none" ->
              /\ pc' = "poll"
              /\ pollDelays' = DelaysVec
              /\ shaken' = {}
              /\ UNCHANGED stalled
              /\ slept' = 0
              /\ UNCHANGED <<published, wmap, pending, buf, got, retres,
                             targets, ti, csr>>
         [] o.t = "value" ->
              /\ buf' = [buf EXCEPT ![o.c] = @ - 1]
              /\ got' = [got EXCEPT ![o.c] = @ + 1]
              /\ pending' = pending \ {o.c}
              /\ wmap' = [d \in DOMAIN wmap |-> Disconnect(wmap[d], o.c)]
              /\ published' =
                    [d \in DOMAIN published |-> Disconnect(published[d], o.c)]
              /\ slept' = 0
              /\ UNCHANGED <<pc, retres, retryLocals, shaken, stalled>>
         [] o.t = "timer" ->
              /\ slept' = ChallengeTimeout
              /\ Exit(Err("Challenge"))
              /\ UNCHANGED <<published, wmap, pending, buf, got>>
         [] OTHER ->
              /\ slept' = 0
              /\ Exit(Err("Challenge"))
              /\ UNCHANGED <<published, wmap, pending, buf, got>>
    /\ UNCHANGED <<guardHeld, procVars, tx, readerVars>>
    /\ UNCHANGED observed
    /\ UNCHANGED sideVars

\* The sender of an entry that a later insert replaced is dropped.
DropEvicted(c) ==
    /\ tx[c] = "evicted"
    /\ tx' = [tx EXCEPT ![c] = "dropped"]
    /\ UNCHANGED <<mapVars, pc, procVars, retryLocals, pending, buf, got,
                   retres, slept, readerVars, shaken, stalled>>
    /\ UNCHANGED observed
    /\ UNCHANGED sideVars

\* One turn of the poll loop: LocatedOrder::try_get (order.rs:190-223) and
\* the match on the status (order.rs:350-386).
Poll(resp) ==
    /\ pc = "poll"
    /\ CASE resp = "ready" ->
              /\ pc' = "finalize"
              /\ slept' = 0
              /\ UNCHANGED <<retres, retryLocals, shaken, stalled>>
         [] resp = "pending" /\ pollDelays # <<>> ->
              /\ slept' = PopValue(pollDelays)
              /\ pollDelays' = PopRest(pollDelays)
              /\ UNCHANGED <<pc, retres, targets, ti, csr, shaken, stalled>>
         [] OTHER ->
              /\ slept' = 0
              /\ Exit(IF resp = "invalid"
                      THEN InvalidOrder(OrderIdentifiers)
                      ELSE Err(CASE resp = "nonce_err" -> "NewNonce"
                                 [] resp = "http_err" -> "GetOrder"
                                 [] OTHER -> "NewOrder"))
    /\ UNCHANGED <<mapVars, procVars, chanVars, readerVars>>
    /\ observed' = IF resp \in OrderStatuses THEN resp ELSE observed
    /\ UNCHANGED sideVars

\* LocatedOrder::finalize (order.rs:399-455): a nonce, a new Csr
\* (csr.rs:19-43), the finalize request and the match on the status.
Finalize(resp) ==
    /\ pc = "finalize"
    /\ slept' = 0
    /\ IF resp \in {"nonce_err", "csr_err"}
       THEN /\ Exit(Err(IF resp = "nonce_err" THEN "NewNonce" ELSE "Csr"))
            /\ UNCHANGED csrCount
       ELSE /\ csrCount' = csrCount + 1
            /\ CASE resp = "processing" ->
                      Exit(OrderProcessing(csrCount + 1))
                 [] resp = "valid" ->
                      /\ pc' = "download"
                      /\ csr' = csrCount + 1
                      /\ UNCHANGED <<retres, targets, ti, pollDelays, shaken, stalled>>
                 [] OTHER ->
                      Exit(Err("FinalizeOrder"))
    /\ UNCHANGED <<mapVars, calls, orderStatus, delays, csrArg, result,
                   chanVars, readerVars>>
    /\ observed' = IF resp \in OrderStatuses THEN resp ELSE observed
    /\ UNCHANGED sideVars

\* LocatedOrder::download_certificate (order.rs:464-499).
Download(resp) ==
    /\ pc = "download"
    /\ slept' = 0
    /\ Exit(CASE resp = "ok" -> Ok(csr)
              [] resp = "nonce_err" -> Err("NewNonce")
              [] OTHER -> Err("DownloadCertificate"))
    /\ UNCHANGED <<mapVars, procVars, chanVars, readerVars>>
    /\ UNCHANGED observed
    /\ UNCHANGED sideVars

\* retry returns: the write guard is dropped, which publishes the writer's
\* copy (order.rs:293, dropped before pending_challenges).
DropGuard ==
    /\ pc = "drop_guard"
    /\ published' = wmap
    /\ guardHeld' = FALSE
    /\ pc' = "drop_receivers"
    /\ UNCHANGED <<wmap, procVars, retryLocals, chanVars, retres, slept,
                   readerVars, shaken, stalled>>
    /\ UNCHANGED observed
    /\ UNCHANGED sideVars

\* An entry after every receiver of the retry has been dropped.
DisconnectAll(e) ==
    IF e.notifier.st = "live"
    THEN [e EXCEPT !.notifier = DeadNotifier]
    ELSE e

\* retry returns: pending_challenges and the receivers are dropped
\* (order.rs:292).
DropReceivers ==
    /\ pc = "drop_receivers"
    /\ pending' = {}
    /\ buf' = [c \in Channels |-> 0]
    /\ tx' = [c \in Channels |-> "unused"]
    /\ wmap' = [d \in DOMAIN wmap |-> DisconnectAll(wmap[d])]
    /\ published' = [d \in DOMAIN published |-> DisconnectAll(published[d])]
    /\ pc' = "process"
    /\ UNCHANGED <<guardHeld, procVars, retryLocals, got, retres, slept,
                   readerVars, shaken, stalled>>
    /\ UNCHANGED observed
    /\ UNCHANGED sideVars

\* A process that hands every result of retry to its caller.
ProcessResultAsIs(r) == r

\* What process returns for result r of retry once no delay is left
\* (order.rs:164-177).
ProcessResult(r) ==
    IF r.kind = "err" /\ r.err = "OrderProcessing"
    THEN Err("NewOrder")
    ELSE r

\* process: the match on what retry returned (order.rs:160-180).  When the
\* call returns its locals are gone.
Process ==
    /\ pc = "process"
    /\ slept' = 0
    /\ IF retres.kind = "err" /\ retres.err = "OrderProcessing" /\ delays # <<>>
       THEN /\ delays' = PopRest(delays)
            /\ csrArg' = retres.csr
            /\ pc' = "retry"
            /\ UNCHANGED <<result, orderStatus, csrCount, observed>>
       ELSE /\ result' = ProcessResult(retres)
            /\ pc' = IF retres.kind = "panic" THEN "panicked" ELSE "idle"
            /\ delays' = <<>>
            /\ csrArg' = 0
            /\ csrCount' = 0
            /\ orderStatus' = "pending"
            /\ observed' = NoStatus
    /\ retres' = NoResult
    /\ UNCHANGED <<mapVars, calls, retryLocals, chanVars, readerVars, shaken, stalled>>
    /\ UNCHANGED sideVars

\* ------------------------------------------------------------ specification

\* What the CA, or the transport, can answer instead of a response.
Failures == {"nonce_err", "http_err"}

Next ==
    \/ \E h \in Hellos : Resolve(h)
    \/ ResolveReturn
    \/ \E resp \in OrderStatuses \cup Failures : NewOrder(resp)
    \/ Retry
    \/ \E failure \in Failures : AuthorizeFails(failure)
    \/ \E auths \in [AuthzUrls -> Authorizations] : Authorize(auths)
    \/ \E utf8 \in BOOLEAN, certOk \in BOOLEAN : Install(utf8, certOk)
    \/ \E resp \in ChallengeStatuses \cup Failures : Accept(resp)
    \/ \E o \in WaitOutcomes : Wait(o)
    \/ \E c \in Channels : DropEvicted(c)
    \/ \E resp \in OrderStatuses \cup Failures : Poll(resp)
    \/ \E resp \in OrderStatuses \cup Failures \cup {"csr_err"} : Finalize(resp)
    \/ \E resp \in Failures \cup {"ok"} : Download(resp)
    \/ DropGuard
    \/ DropReceivers
    \/ Process

Spec == Init /\ [][Next]_vars

\* The steps of the driver inside a call: each awaits a response of the CA,
\* a timer or a channel, or runs to the next await on its own.
DriverStep ==
    \/ pc = "retry" /\ Retry
    \/ pc = "authorize" /\ \E failure \in Failures : AuthorizeFails(failure)
    \/ pc = "authorize" /\ \E auths \in [AuthzUrls -> Authorizations] :
                              Authorize(auths)
    \/ pc = "install" /\ \E utf8 \in BOOLEAN, certOk \in BOOLEAN :
                            Install(utf8, certOk)
    \/ pc = "accept" /\ \E resp \in ChallengeStatuses \cup Failures : Accept(resp)
    \/ pc = "wait" /\ \E o \in WaitOutcomes : Wait(o)
    \/ pc = "poll" /\ \E resp \in OrderStatuses \cup Failures : Poll(resp)
    \/ pc = "finalize" /\ \E resp \in OrderStatuses \cup Failures \cup {"csr_err"} :
                             Finalize(resp)
    \/ pc = "download" /\ \E resp \in Failures \cup {"ok"} : Download(resp)
    \/ pc = "drop_guard" /\ DropGuard
    \/ pc = "drop_receivers" /\ DropReceivers
    \/ pc = "process" /\ Process

\* Every request gets a response and every timer fires: the driver is not
\* left waiting forever at an await.
LiveSpec == Spec /\ WF_vars(DriverStep)

\* ------------------------------------------------------------------ claims

\* A request_certificates call has returned.
Returned == pc = "idle" /\ result # NoResult

\* Entry e carries a challenge key generated by the current call.
InstalledByThisCall(e) ==
    e.challenge_key.kind = "challenge" /\ e.challenge_key.call = calls

\* C1: after a request_certificates call has returned, with a certificate or
\* with an error, no resolver entry carries a challenge key (and with it a
\* notifier) that this call installed.
C1_RevertedOnReturn ==
    Returned =>
        \A d \in DOMAIN published :
            /\ ~InstalledByThisCall(published[d])
            /\ ~InstalledByThisCall(wmap[d])

\* The entry installed for the challenge of index c is the one readers see.
Visible(c) ==
    /\ targets[c] \in DOMAIN published
    /\ published[targets[c]].challenge_key =
           ChallengeCertificate(targets[c], calls)
    /\ published[targets[c]].notifier = LiveNotifier(c)

\* C2: the entry with the challenge key and the notifier is visible to
\* readers when the accept request is sent, and stays visible for every
\* awaited challenge during the wait.
C2_PublishedBeforeAccept ==
    /\ pc = "accept" => Visible(ti)
    /\ pc = "wait" => \A c \in pending : Visible(c)

\* C3: when an acme-tls/1 handshake for the domain of every awaited
\* challenge has reached resolve during the wait, the wait does not end with
\* a Challenge error.
C3_WaitEndsWithoutError ==
    [][(/\ pc = "wait"
        /\ pending # {}
        /\ \A c \in pending : targets[c] \in shaken)
       => ~(retres'.kind = "err" /\ retres'.err = "Challenge")]_vars

\* C4: within one request_certificates call at most one CSR is generated.
C4_AtMostOneCsr == csrCount <= 1

\* C5: when finalize reported processing, the driver waits 10 s before it
\* looks at the order again, and 150 s the second time.
C5_ProcessingBackoff ==
    [][(pc = "process" /\ pc' = "retry")
       => slept' = (IF Len(delays) = Len(DelaysVec) THEN 10 ELSE 150)]_vars

\* A handshake enters resolve in this step.
ResolveStep == hello = NoHello /\ hello' # NoHello

\* C6: for a hello with acme-tls/1 and server name n, resolve returns the
\* challenge key of n's published entry if that entry has one, and none in
\* every other case; it never returns a production key.
C6_AcmeResolve ==
    [][(ResolveStep /\ hello'.acme /\ hello'.sni # NoSni)
       => /\ IF /\ hello'.sni \in DOMAIN published
                /\ published[hello'.sni].challenge_key # NoKey
             THEN res' = published[hello'.sni].challenge_key
             ELSE res' = NoKey
          /\ res'.kind \in {"challenge", "none"}]_vars

\* An acme-tls/1 handshake was answered with a challenge key.
C6_Witness == hello # NoHello /\ hello.acme /\ res.kind = "challenge"

\* C7: for one installation the receiver obtains at most one value and the
\* channel never holds more than that one; a further try_send returns an
\* error that resolve ignores.
C7_OneShotNotifier ==
    /\ \A c \in Channels : got[c] + buf[c] <= 1
    /\ sendRes \in {"not_sent", "sent", "full", "disconnected"}

\* A second handshake for an installation found the channel full.
C7_Witness ==
    /\ hello # NoHello /\ hello.acme
    /\ sendRes = "full"
    /\ res.kind = "challenge"

\* C8: for a hello without acme-tls/1 resolve returns the production key of
\* the entry for the server name, or none without an entry; without a server
\* name it returns none; in neither case is a notifier signalled or a
\* challenge key returned.
C8_PlainResolve ==
    [][(ResolveStep /\ (~hello'.acme \/ hello'.sni = NoSni))
       => /\ res' = IF hello'.sni \in DOMAIN published /\ ~hello'.acme
                    THEN published[hello'.sni].key
                    ELSE NoKey
          /\ res'.kind # "challenge"
          /\ sendRes' = "not_sent"
          /\ buf' = buf]_vars

\* A handshake without acme-tls/1 got the production key of a domain whose
\* entry carries a challenge key.
C8_Witness ==
    /\ hello # NoHello /\ ~hello.acme
    /\ hello.sni \in DOMAIN published
    /\ published[hello.sni].challenge_key # NoKey
    /\ res = published[hello.sni].key

\* The production key each domain had when the Acme object was constructed.
KeyAtConstruction(d) ==
    IF d \in GivenAtConstruction THEN GivenKey(d)
    ELSE create_self_signed_certificate(d)

\* C9: installing a challenge key for a domain leaves its production key and
\* the entries of the other domains unchanged; a handshake without
\* acme-tls/1 for a configured domain always gets the key it got before.
C9_ProductionKeyKept ==
    /\ [](\A d \in Domains :
            /\ published[d].key = KeyAtConstruction(d)
            /\ wmap[d].key = KeyAtConstruction(d))
    /\ [][(pc = "install" /\ pc' = "accept")
          => /\ DOMAIN wmap' = DOMAIN wmap
             /\ \A d \in DOMAIN wmap \ {targets[ti]} : wmap'[d] = wmap[d]
             /\ wmap'[targets[ti]].key = wmap[targets[ti]].key]_vars

\* While a challenge key is installed and its accept request is under way, a
\* handshake without acme-tls/1 got the key given at construction.
C9_Witness ==
    /\ pc = "accept"
    /\ wmap[targets[ti]].challenge_key # NoKey
    /\ hello = [sni |-> targets[ti], acme |-> FALSE]
    /\ res = KeyAtConstruction(targets[ti])

\* C10: in every reachable state every domain given at construction has an
\* entry with a production key, self-signed when no key was given, and a
\* handshake without acme-tls/1 for it never resolves to none.
C10_EntryForEveryDomain ==
    /\ \A d \in Domains :
          /\ d \in DOMAIN published
          /\ published[d].key.kind =
                 IF d \in GivenAtConstruction THEN "given" ELSE "selfsigned"
          /\ published[d].key.dom = d
    /\ (hello # NoHello /\ ~hello.acme /\ hello.sni \in Domains)
           => res.kind \in {"given", "selfsigned"}

\* After the last call has returned, a handshake for the domain given
\* without a key is answered with its self-signed key.
C10_Witness ==
    /\ calls = MaxCalls /\ Returned
    /\ hello = [sni |-> "b.test", acme |-> FALSE]
    /\ res.kind = "selfsigned"

\* C11: after request_certificates has returned a certificate, the
\* production key resolve serves for each ordered domain is the newly issued
\* certificate, no longer a key put there at construction.
C11_ResolverUpdated ==
    (Returned /\ result.kind = "ok") =>
        \A d \in Domains :
            resolve(published, [sni |-> d, acme |-> FALSE]) # KeyAtConstruction(d)

\* C12: a success is returned only after a successful download, and carries
\* the key of the CSR submitted in the finalize request the CA answered with
\* valid; every other return is an error that carries no key.
C12_KeyAndChainOrError ==
    /\ [](/\ retres.kind = "ok" =>
               /\ retres.csr = csrCount
               /\ csrCount >= 1
               /\ observed = "valid"
          /\ result.kind = "ok" => result.csr >= 1
          /\ result.kind = "err" => result.csr = 0 /\ result.err # "")
    /\ [][(retres'.kind = "ok" /\ retres.kind # "ok") => pc = "download"]_vars
    /\ [][(result'.kind = "ok" /\ result' # result) => result' = retres]_vars

\* A call returned the key of the second CSR it generated.
C12_Witness == Returned /\ result.kind = "ok" /\ result.csr = 2

\* C13: no call returns an error of kind OrderProcessing: process either
\* runs retry again with the CSR, or returns NewOrder instead.
C13_OrderProcessingInternal ==
    /\ [](result.err # "OrderProcessing")
    /\ [][(pc = "process" /\ pc' # "process" /\ retres.err = "OrderProcessing")
          => \/ pc' = "retry" /\ csrArg' = retres.csr
             \/ pc' = "idle" /\ result' = Err("NewOrder")]_vars

\* OrderProcessing reaches process a third time, with no delay left.
C13_Witness ==
    /\ pc = "process"
    /\ retres.err = "OrderProcessing"
    /\ delays = <<>>

\* A request_certificates call is under way.
InCall == pc \notin {"idle", "panicked"}

\* C14: when every request gets a response a call terminates; every new
\* retry iteration uses up one of the two delays of process, every further
\* fetch of the order uses up one of the two delays of the poll loop, every
\* further turn of the wait takes a receiver off the awaited set, and the
\* timer ends the wait.
C14_Terminates ==
    /\ InCall ~> ~InCall
    /\ [](Len(delays) <= 2 /\ Len(pollDelays) <= 2)
    /\ [][(pc = "process" /\ Process /\ pc' = "retry") => Len(delays') = Len(delays) - 1]_vars
    /\ [][(pc = "poll" /\ pc' = "poll"
           /\ \E resp \in OrderStatuses \cup Failures : Poll(resp))
          => Len(pollDelays') = Len(pollDelays) - 1]_vars
    /\ [][(pc = "wait" /\ pc' = "wait" /\ \E o \in WaitOutcomes : Wait(o))
          => (pending' \subseteq pending /\ pending' # pending)]_vars
    /\ [][(pc = "wait" /\ slept' = ChallengeTimeout) => pc' # "wait"]_vars

\* The third retry iteration is about to fetch the order for the third time.
C14_Witness ==
    /\ pc = "poll"
    /\ delays = <<>>
    /\ pollDelays = <<>>

\* C15: when the authorizations of a pending order are fetched and one of
\* them is neither valid nor pending, retry fails with InvalidAuthorization
\* without taking the write guard; the call returns that error with no
\* resolver entry modified, and so with no challenge accepted (an accept
\* request only follows an insert).
C15_InvalidAuthorization ==
    /\ [][(/\ pc = "authorize"
           /\ observed = "pending"
           /\ \E auths \in [AuthzUrls -> Authorizations] :
                 /\ \E i \in AuthzUrls : auths[i].status = "revoked"
                 /\ Authorize(auths))
          => /\ retres' = Err("InvalidAuthorization")
             /\ pc' = "process"
             /\ ~guardHeld'
             /\ wmap' = wmap /\ published' = published]_vars
    /\ [][(/\ pc = "process" /\ pc' # "process"
           /\ observed = "pending"
           /\ retres = Err("InvalidAuthorization"))
          => /\ result' = Err("InvalidAuthorization")
             /\ wmap' = wmap /\ published' = published
             /\ \A d \in Domains : ~InstalledByThisCall(published'[d])]_vars

\* retry has failed with InvalidAuthorization on a pending order.
C15_Witness ==
    /\ pc = "process"
    /\ observed = "pending"
    /\ retres = Err("InvalidAuthorization")

\* C16: the driver does not go on to the wait and to the order poll when a
\* pending authorization offers no tls-alpn-01 challenge.
C16_NoChallengeStops == pc \in {"wait", "poll"} => ~stalled

\* C17: when the wait ends while a receiver is still awaited (the timer has
\* fired, or a receiver has failed), retry fails with Challenge, the call
\* returns that error, and no order poll or finalize request follows.
C17_WaitDeadline ==
    /\ [][(pc = "wait" /\ pending # {} /\ pc' # "wait")
          => retres' = Err("Challenge") /\ pc' = "drop_guard"]_vars
    /\ [][(pc = "process" /\ pc' # "process" /\ retres = Err("Challenge"))
          => pc' = "idle" /\ result' = Err("Challenge")]_vars
    /\ [](retres = Err("Challenge")
            => pc \in {"drop_guard", "drop_receivers", "process"})

\* The timer has ended a wait with a receiver still awaited.
C17_Witness ==
    /\ pc = "drop_guard"
    /\ retres = Err("Challenge")
    /\ slept = ChallengeTimeout
    /\ pending # {}

\* C18: while the re-fetched order is still pending, the driver waits 10 s
\* before the second fetch and 150 s before the third.
C18_PollBackoff ==
    [][(/\ pc = "poll" /\ pc' = "poll"
        /\ \E resp \in OrderStatuses \cup Failures : Poll(resp))
       => slept' = (IF Len(pollDelays) = Len(DelaysVec) THEN 10 ELSE 150)]_vars

\* C19: when the driver observes the order valid, it goes on to download
\* with the remembered CSR if there is one, and fails with NewOrder if there
\* is none.
C19_ValidObserved ==
    [][(\/ pc = "poll" /\ Poll("valid")
        \/ pc = "retry" /\ orderStatus = "valid" /\ Retry)
       => IF csrArg # 0
          THEN pc' = "download" /\ csr' = csrArg
          ELSE retres' = Err("NewOrder")]_vars

\* The changes of order status RFC 8555 allows.
AllowedChanges ==
    {<<"pending", "ready">>, <<"pending", "invalid">>,
     <<"ready", "processing">>, <<"ready", "valid">>,
     <<"processing", "valid">>, <<"processing", "invalid">>}

\* C20: every change between two consecutively observed order statuses on
\* which the driver goes on, instead of failing the call, is one of the
\* allowed changes.
C20_ObservedChanges ==
    [][(/\ observed # NoStatus
        /\ observed' \notin {observed, NoStatus}
        /\ (retres' = NoResult \/ retres'.err = "OrderProcessing"))
       => <<observed, observed'>> \in AllowedChanges]_vars

\* C21: a call made after an earlier call has ended finds an entry for each
\* of its domains, and every handshake for one of its challenge domains
\* during its wait, answered from an entry that holds a challenge key, puts
\* a value into the channel this call waits on.
C21_SafeReentry ==
    /\ [](calls >= 2 /\ InCall => \A d \in Domains : d \in DOMAIN wmap)
    /\ [][(/\ calls >= 2 /\ pc = "wait"
           /\ ResolveStep
           /\ hello'.acme
           /\ \E c \in pending : targets[c] = hello'.sni
           /\ res' # NoKey)
          => \E c \in pending :
                /\ targets[c] = hello'.sni
                /\ buf'[c] = 1]_vars

\* The entries a reader may find for a domain: the one of construction, or
\* one installed whole by some call.
WholeEntries(d) ==
    {DomainResolver(KeyAtConstruction(d), NoKey, NoNotifier)}
    \cup {DomainResolver(KeyAtConstruction(d), ChallengeCertificate(d, k), n) :
             k \in 1..MaxCalls,
             n \in {DeadNotifier} \cup {LiveNotifier(i) : i \in Channels}}

\* C22: resolve never waits on the driver.  A handshake can be answered in
\* every state, also while the write guard is held, and its answer is
\* computed from the published snapshot alone; it moves neither the driver
\* nor the maps.
C22_ResolveNeverWaits ==
    /\ [](hello = NoHello => \A h \in Hellos : ENABLED Resolve(h))
    /\ [][ResolveStep =>
            /\ res' = resolve(published, hello')
            /\ UNCHANGED <<pc, mapVars, retres, pending>>]_vars

\* A handshake answered during the wait, guard held, from the snapshot that
\* does not hold the challenge key the writer has inserted.
C22_Witness ==
    /\ guardHeld /\ pc = "wait"
    /\ hello # NoHello /\ hello.acme /\ hello.sni \in Domains
    /\ wmap[hello.sni].challenge_key # published[hello.sni].challenge_key
    /\ res = published[hello.sni].challenge_key

\* C23: in every entry a reader can observe the notifier is present exactly
\* when the challenge key is, and the entry is a whole one: that of
\* construction or one a call installed, never a mixture.
C23_WholeEntries ==
    \A d \in DOMAIN published :
        /\ (published[d].notifier = NoNotifier)
              <=> (published[d].challenge_key = NoKey)
        /\ published[d] \in WholeEntries(d)

\* A published entry with a challenge key and its live sender.
C23_Witness ==
    \E d \in DOMAIN published :
        /\ published[d].challenge_key # NoKey
        /\ published[d].notifier \in {LiveNotifier(i) : i \in Channels}

\* ------------------------------------------------------------ name lookup

\* Names a caller may configure and a client may send, in either letter
\* case.
MixedNames == {"a.test", "A.test", "b.test", "B.test"}

\* ASCII lowercase of a name.
to_ascii_lowercase(s) ==
    CASE s = "A.test" -> "a.test"
      [] s = "B.test" -> "b.test"
      [] OTHER -> s

\* A resolver constructed for any names, in the case the caller wrote them.
LookupInit ==
    /\ \E names \in SUBSET MixedNames \ {{}} :
         \E given \in SUBSET names :
            published = insert_domain_names(names, given)
    /\ wmap = published
    /\ DriverIdle
    /\ SideIdle

LookupHellos == [sni : MixedNames \cup {Stranger, NoSni}, acme : BOOLEAN]

LookupNext ==
    \/ \E h \in LookupHellos : Resolve(h)
    \/ ResolveReturn

\* Handshakes against a resolver constructed for any names.
LookupSpec == LookupInit /\ [][LookupNext]_vars

\* C24: the lookup is case-insensitive (the keys being stored lowercase):
\* resolve answers a server name as it answers every configured name that
\* differs from it only in letter case.
C24_CaseInsensitive ==
    hello # NoHello =>
       \A d \in DOMAIN published :
          to_ascii_lowercase(hello.sni) = to_ascii_lowercase(d)
          => res = resolve(published, [sni |-> d, acme |-> hello.acme])

\* ------------------------------------------------------------ transport

\* The delays of the match on retry_count after Err(_)
\* (reqwest_client.rs:34-40, 82-88) and after 503 | 504
\* (reqwest_client.rs:21-27, 69-75).
ConnectionDelays == <<1, 5, 30, 120>>
UnavailableDelays == <<5, 30, 120, 600>>

\* A match on retry_count whose last arm never returns the error.
RetryDelayForever(schedule, rc) ==
    IF rc < Len(schedule) THEN schedule[rc + 1] ELSE schedule[Len(schedule)]

\* A match that starts the schedule of Err(_) one arm late.
RetryDelayShifted(schedule, rc) ==
    IF rc + 1 < Len(schedule) /\ schedule = ConnectionDelays
    THEN schedule[rc + 2]
    ELSE IF rc < Len(schedule) THEN schedule[rc + 1] ELSE 0

\* The match on retry_count: the delay of arm rc, or 0 for the last arm,
\* which returns the error.
RetryDelay(schedule, rc) ==
    IF rc < Len(schedule) THEN schedule[rc + 1] ELSE 0

\* The JSON values post_jose is given: a JWS the caller has signed over a
\* nonce and a payload.
JwsBodies == [nonce : {1, 2}, payload : {"finalize", "newkey"}]

\* A loop that signs again over another nonce before each retry.
AttemptBodyResigned(body, rc) ==
    IF body = NoText THEN body ELSE [body EXCEPT !.nonce = @ + rc]

\* What a turn of the loop sends: .json(body.borrow())
\* (reqwest_client.rs:59-61); get_request sends no body.
AttemptBody(body, rc) == body

\* get_request (reqwest_client.rs:14-15) or post_jose
\* (reqwest_client.rs:47-57) is called: retry_count = 0 and the loop starts.
HttpStart(m, body) ==
    /\ httpPc = "idle"
    /\ httpPc' = "send"
    /\ method' = m
    /\ httpBody' = body
    /\ httpSent' = <<>>
    /\ retry_count' = 0
    /\ httpLog' = <<>>
    /\ httpWaits' = <<>>
    /\ httpResult' = NoReturn
    /\ UNCHANGED <<driverVars, besidesTransport>>

\* One turn of the loop up to its await of the Delay or its return
\* (reqwest_client.rs:16-44, 58-92); o is what send().await gives.
HttpSend(o) ==
    /\ httpPc = "send"
    /\ httpLog' = Append(httpLog, o)
    /\ httpSent' = Append(httpSent, AttemptBody(httpBody, retry_count))
    /\ LET schedule == IF o = "err" THEN ConnectionDelays
                       ELSE UnavailableDelays
           delay == RetryDelay(schedule, retry_count)
       IN IF o = "429"
          THEN /\ httpResult' = HttpErr("TooManyRequests")
               /\ httpPc' = "done"
               /\ UNCHANGED <<retry_count, httpWaits>>
          ELSE IF o \in {"err", "503", "504"}
          THEN IF delay = 0
               THEN /\ httpResult' = HttpErr(IF o = "err"
                                             THEN "ConnectionError"
                                             ELSE "ServiceUnavailable")
                    /\ httpPc' = "done"
                    /\ UNCHANGED <<retry_count, httpWaits>>
               ELSE /\ retry_count' = retry_count + 1
                    /\ httpWaits' = Append(httpWaits, delay)
                    /\ httpPc' = "delay"
                    /\ UNCHANGED httpResult
          ELSE /\ httpResult' = HttpOk(o)
               /\ httpPc' = "done"
               /\ UNCHANGED <<retry_count, httpWaits>>
    /\ UNCHANGED <<method, httpBody>>
    /\ UNCHANGED <<driverVars, besidesTransport>>

\* The Delay has elapsed (reqwest_client.rs:29, 42, 77, 90): next turn.
HttpDelay ==
    /\ httpPc = "delay"
    /\ httpPc' = "send"
    /\ UNCHANGED <<method, retry_count, httpLog, httpWaits, httpResult>>
    /\ UNCHANGED <<httpBody, httpSent>>
    /\ UNCHANGED <<driverVars, besidesTransport>>

\* The caller has the result; the locals of the request are gone.
HttpReturn ==
    /\ httpPc = "done"
    /\ httpPc' = "idle"
    /\ method' = "none"
    /\ retry_count' = 0
    /\ httpLog' = <<>>
    /\ httpWaits' = <<>>
    /\ httpResult' = NoReturn
    /\ httpBody' = NoText
    /\ httpSent' = <<>>
    /\ UNCHANGED <<driverVars, besidesTransport>>

TransportNext ==
    \/ HttpStart("get_request", NoText)
    \/ \E body \in JwsBodies : HttpStart("post_jose", body)
    \/ \E o \in SendOutcomes : HttpSend(o)
    \/ HttpDelay
    \/ HttpReturn

\* One request after the other through the transport, each send meeting
\* any outcome.
TransportSpec == Init /\ [][TransportNext]_vars

\* The failures among the sends logged in l, and those of one kind.
FailuresIn(l) == SelectSeq(l, LAMBDA o : o \in {"err", "503", "504"})
ConnFailuresIn(l) == SelectSeq(l, LAMBDA o : o = "err")
UnavailableIn(l) == SelectSeq(l, LAMBDA o : o \in {"503", "504"})

\* A send has just been answered.
SendStep == httpPc = "send" /\ httpPc' # "send"

\* What follows the k-th failure of a schedule: the await of its k-th delay,
\* or the error once the schedule is used up.
RetriedOrFailed(k, schedule, error) ==
    IF k <= Len(schedule)
    THEN /\ httpPc' = "delay"
         /\ httpWaits' = Append(httpWaits, schedule[k])
    ELSE /\ httpPc' = "done"
         /\ httpResult' = HttpErr(error)

\* C27 as stated: whatever failures came before, the k-th connection
\* failure of a request is retried after the k-th of 1, 5, 30, 120 s and
\* the fifth yields ConnectionError; the k-th 503/504 is retried after the
\* k-th of 5, 30, 120, 600 s and the fifth yields ServiceUnavailable; a 429
\* yields TooManyRequests at once.
C27_PerKindSchedule ==
    [][SendStep =>
        LET o == httpLog'[Len(httpLog')]
        IN CASE o = "err" ->
                  RetriedOrFailed(Len(ConnFailuresIn(httpLog')),
                                  <<1, 5, 30, 120>>, "ConnectionError")
             [] o \in {"503", "504"} ->
                  RetriedOrFailed(Len(UnavailableIn(httpLog')),
                                  <<5, 30, 120, 600>>, "ServiceUnavailable")
             [] o = "429" ->
                  httpPc' = "done" /\ httpResult' = HttpErr("TooManyRequests")
             [] OTHER -> TRUE]_vars

\* C27, amended: the request counts its failures of both kinds together.
\* Its k-th failure, k <= 4, is retried after the k-th delay of the
\* schedule of that failure's kind (1, 5, 30, 120 s for a connection
\* failure, 5, 30, 120, 600 s for a 503/504), and its fifth failure yields
\* the error of that failure's kind; a 429 yields TooManyRequests at once.
C27_SharedCountSchedule ==
    [][SendStep =>
        LET o == httpLog'[Len(httpLog')]
            k == Len(FailuresIn(httpLog'))
        IN CASE o = "err" ->
                  RetriedOrFailed(k, <<1, 5, 30, 120>>, "ConnectionError")
             [] o \in {"503", "504"} ->
                  RetriedOrFailed(k, <<5, 30, 120, 600>>, "ServiceUnavailable")
             [] o = "429" ->
                  httpPc' = "done" /\ httpResult' = HttpErr("TooManyRequests")
             [] OTHER -> TRUE]_vars

\* A request that met failures of both kinds and returned the error of the
\* kind of its fifth.
C27_Witness ==
    /\ httpPc = "done"
    /\ httpResult = HttpErr("ConnectionError")
    /\ Len(UnavailableIn(httpLog)) > 0
    /\ httpWaits = <<5, 5, 30, 120>>

\* C28: whatever mixture of connection failures and 503/504 responses it
\* meets, one request makes at most five sends; after the fifth it has
\* returned, and what it returns is a response or an error.
C28_BoundedRetry ==
    /\ Len(httpLog) <= 5
    /\ Len(httpLog) = 5 => httpPc = "done"
    /\ httpPc = "done" => httpResult.kind \in {"response", "err"}

\* Five sends that met both kinds of failure.
C28_Witness ==
    /\ Len(httpLog) = 5
    /\ Len(ConnFailuresIn(httpLog)) > 0
    /\ Len(UnavailableIn(httpLog)) > 0
    /\ httpPc = "done"

\* ------------------------------------------------------------ signed requests

\* new_nonce calls the CA answers in a run.
MaxNonces == 2

\* jwk(keypair) (jose.rs:52-63)
jwk(keypair) == [kty |-> "EC", key |-> keypair]

\* A jose that puts the jwk into every header.
jose_jwk_always(keypair, payload, kid, nonce, url) ==
    [protected |-> [alg |-> "ES256", jwk |-> jwk(keypair), kid |-> kid,
                    nonce |-> nonce, url |-> url],
     payload |-> payload,
     signature |-> keypair]

\* jose (jose.rs:15-50): the jwk is in the header exactly when no kid is
\* given.  nonce = 0 stands for None.
jose(keypair, payload, kid, nonce, url) ==
    [protected |-> [alg |-> "ES256",
                    jwk |-> IF kid = NoKid THEN jwk(keypair) ELSE NoJwk,
                    kid |-> kid,
                    nonce |-> nonce,
                    url |-> url],
     payload |-> payload,
     signature |-> keypair]

\* The members serde writes for a Protected (jose.rs:98-108): jwk, kid and
\* nonce are skipped when they are None.
ProtectedFields(p) ==
    {"alg", "url"}
    \cup (IF p.jwk # NoJwk THEN {"jwk"} ELSE {})
    \cup (IF p.kid # NoKid THEN {"kid"} ELSE {})
    \cup (IF p.nonce # 0 THEN {"nonce"} ELSE {})

\* The kid argument each function passes to jose: new_account passes None
\* (account.rs:336), every other one the account URL.
KidArg(site) == IF site = "new_account" THEN NoKid ELSE Account.url

\* The payload argument: None (written "") in authorize, try_get and
\* download_certificate, Some(..) elsewhere.
PayloadArg(site) ==
    IF site \in {"authorize", "try_get", "download"} THEN "" ELSE site

\* A task that signs with the nonce the client saw last.
NonceArgCached(t) == Len(issued)

\* The nonce argument: the local `nonce` the function bound from its own
\* new_nonce call.
NonceArg(t) == reqs[t].nonce

\* A request function is entered; each starts with
\* directory.new_nonce(client) (account.rs:118, 219, 270, 328;
\* authorization.rs:54; challenge.rs:114; order.rs:95, 196, 406, 472).
ReqStart(t, site) ==
    /\ reqs[t].at = "idle"
    /\ reqs' = [reqs EXCEPT ![t] = [site |-> site, at |-> "new_nonce",
                                    nonce |-> 0]]
    /\ UNCHANGED <<issued, built, wire>>
    /\ UNCHANGED <<driverVars, besidesRequests>>

\* Directory::new_nonce returns (directory.rs:73-97): the replay-nonce of
\* the CA's response, a value the CA has not handed out before, or an error,
\* with which the request function returns.
NewNonce(t, ok) ==
    /\ reqs[t].at = "new_nonce"
    /\ IF ok
       THEN /\ Len(issued) < MaxNonces
            /\ issued' = Append(issued, [task |-> t, site |-> reqs[t].site])
            /\ reqs' = [reqs EXCEPT ![t].at = "jose",
                                    ![t].nonce = Len(issued) + 1]
       ELSE /\ reqs' = [reqs EXCEPT ![t] = IdleRequest]
            /\ UNCHANGED issued
    /\ UNCHANGED <<built, wire>>
    /\ UNCHANGED <<driverVars, besidesRequests>>

\* The inner JWS of update_key (account.rs:275): signed with the new key,
\* no kid and no nonce.
InnerJws == jose(RolloverKeypair, "newkey", NoKid, 0, "key_change")

\* The body the function of task t builds (the jose call after its
\* new_nonce).
BodyOf(t) ==
    LET site == reqs[t].site
    IN jose(Account.keypair,
            IF site = "update_key" THEN "inner" ELSE PayloadArg(site),
            KidArg(site), NonceArg(t), site)

\* The function signs and posts: jose, then client.post_jose(url, &body).
\* csrOk: in finalize the CSR is generated between new_nonce and jose
\* (order.rs:417); when that fails nothing is signed.
SignAndPost(t, csrOk) ==
    /\ reqs[t].at = "jose"
    /\ IF reqs[t].site = "finalize" /\ ~csrOk
       THEN UNCHANGED <<built, wire>>
       ELSE /\ built' = built
                  \cup {[site |-> reqs[t].site, role |-> "body",
                         kid |-> KidArg(reqs[t].site), jws |-> BodyOf(t)]}
                  \cup (IF reqs[t].site = "update_key"
                        THEN {[site |-> "update_key", role |-> "inner",
                               kid |-> NoKid, jws |-> InnerJws]}
                        ELSE {})
            /\ wire' = Append(wire, [task |-> t, site |-> reqs[t].site,
                                     body |-> BodyOf(t)])
    /\ reqs' = [reqs EXCEPT ![t] = IdleRequest]
    /\ UNCHANGED issued
    /\ UNCHANGED <<driverVars, besidesRequests>>

RequestNext ==
    \/ \E t \in Tasks : \E site \in SitesOf(t) : ReqStart(t, site)
    \/ \E t \in Tasks, ok \in BOOLEAN : NewNonce(t, ok)
    \/ \E t \in Tasks, csrOk \in BOOLEAN : SignAndPost(t, csrOk)

\* The request functions, the caller's one after the other and the
\* authorization fetches concurrently with them.
RequestSpec == Init /\ [][RequestNext]_vars

\* C25: the protected header of every JWS built holds exactly one of jwk
\* and kid: the jwk when no account URL is passed to jose, and otherwise
\* the kid, which is that URL.
C25_JwkOrKid ==
    \A b \in built :
       LET fields == ProtectedFields(b.jws.protected)
       IN /\ Cardinality(fields \cap {"jwk", "kid"}) = 1
          /\ ("jwk" \in fields) <=> (b.kid = NoKid)
          /\ "kid" \in fields => b.jws.protected.kid = b.kid

\* An account creation, a key rollover with its inner JWS and a request
\* under the account URL have been built.
C25_Witness ==
    /\ \E b \in built : b.site = "new_account"
    /\ \E b \in built : b.role = "inner"
    /\ \E b \in built : b.site = "update_key" /\ b.role = "body"

\* C26: every body posted carries a nonce; the nonce was handed out by the
\* CA to a new_nonce call of the same task for the same request function,
\* and no other body posted carries it.  The inner JWS of a key rollover
\* carries none.
C26_NonceOfItsOwn ==
    /\ \A i \in DOMAIN wire :
          LET n == wire[i].body.protected.nonce
          IN /\ "nonce" \in ProtectedFields(wire[i].body.protected)
             /\ n \in DOMAIN issued
             /\ issued[n].task = wire[i].task
             /\ issued[n].site = wire[i].site
             /\ \A j \in DOMAIN wire :
                   j # i => wire[j].body.protected.nonce # n
    /\ \A b \in built :
          b.role = "inner" => "nonce" \notin ProtectedFields(b.jws.protected)

\* Two authorization fetches of different tasks posted, the one that
\* fetched its nonce later posting first.
C26_Witness ==
    /\ Len(wire) >= 2
    /\ wire[1].site = "authorize" /\ wire[2].site = "authorize"
    /\ wire[1].task # wire[2].task
    /\ wire[1].body.protected.nonce > wire[2].body.protected.nonce

\* ------------------------------------------------------------ account

\* A match that takes every parsed account status as valid.
LookupBranchAnyStatus(resp) ==
    CASE resp.code = 200 ->
           IF resp.status = "unparsable" THEN "fail" ELSE "update_contact"
      [] resp.code = 403 -> "update_contact"
      [] resp.code \in {400, 404} -> "new_account"
      [] OTHER -> "fail"

\* The match on the status code of the lookup (account.rs:133-184).
LookupBranch(resp) ==
    CASE resp.code = 200 ->
           IF resp.status = "valid" THEN "update_contact" ELSE "fail"
      [] resp.code = 403 -> "update_contact"
      [] resp.code \in {400, 404} -> "new_account"
      [] OTHER -> "fail"

\* A re-registration with a newly generated key, as AccountMaterial::from
\* makes one (account.rs:200-202).
GeneratedKey(a) == "generated"

\* The pkcs8 (and its key pair) from_json hands to new_account
\* (account.rs:165-167): those of the restored account.
RegistrationKey(a) == a.pkcs8

\* from_json is called (account.rs:106-115): the JSON is decoded.
FromJson(json) ==
    /\ accPc = "idle"
    /\ stored' = json
    /\ returned' = IF json = stored THEN returned ELSE {}
    /\ accRequests' = <<>>
    /\ response' = NoResponse
    /\ IF json.decode = "ok"
       THEN /\ account' = AccountMaterial(keypair_from_pkcs8(json.pkcs8),
                                          json.pkcs8, json.url)
            /\ accPc' = "lookup_nonce"
            /\ accResult' = NoAccount
       ELSE /\ account' = NoMaterial
            /\ accPc' = "done"
            /\ accResult' = AccountErr(IF json.decode = "bad_json"
                                       THEN "DeserializeAccount"
                                       ELSE "InvalidKey")
    /\ UNCHANGED <<driverVars, besidesAccount>>

\* The new_nonce call that opens from_json's lookup (account.rs:118),
\* update_contact (account.rs:219) and new_account (account.rs:328); its
\* error is passed on by `?`.
AccNonce(ok) ==
    /\ accPc \in {"lookup_nonce", "update_contact_nonce", "new_account_nonce"}
    /\ LET fn == CASE accPc = "lookup_nonce" -> "lookup"
                   [] accPc = "update_contact_nonce" -> "update_contact"
                   [] OTHER -> "new_account"
       IN /\ accRequests' = Append(accRequests,
                                   [fn |-> fn, req |-> "new_nonce"])
          /\ IF ok
             THEN accPc' = fn /\ UNCHANGED accResult
             ELSE accPc' = "done" /\ accResult' = AccountErr("NewNonce")
    /\ UNCHANGED <<stored, account, response, returned>>
    /\ UNCHANGED <<driverVars, besidesAccount>>

\* The lookup is posted and its response matched (account.rs:122-184).
Lookup(resp) ==
    /\ accPc = "lookup"
    /\ accRequests' = Append(accRequests, [fn |-> "lookup", req |-> "post"])
    /\ response' = resp
    /\ IF resp.code = 0
       THEN accPc' = "done" /\ accResult' = AccountErr("GetAccount")
       ELSE LET branch == LookupBranch(resp)
            IN IF branch = "fail"
               THEN accPc' = "done" /\ accResult' = AccountErr("GetAccount")
               ELSE /\ accPc' = IF branch = "update_contact"
                                THEN "update_contact_nonce"
                                ELSE "new_account_nonce"
                    /\ UNCHANGED accResult
    /\ UNCHANGED <<stored, account, returned>>
    /\ UNCHANGED <<driverVars, besidesAccount>>

\* update_contact posts and reads the response (account.rs:224-253), and
\* from_json returns the restored account when it succeeded
\* (account.rs:143-146, 160-163).
UpdateContact(resp) ==
    /\ accPc = "update_contact"
    /\ accRequests' = Append(accRequests,
                             [fn |-> "update_contact", req |-> "post"])
    /\ accResult' =
          IF resp.code = 0 THEN AccountErr("GetAccount")
          ELSE IF ~is_success(resp) THEN AccountErr("GetAccount")
          ELSE IF resp.status = "unparsable" THEN AccountErr("NewAccount")
          ELSE IF resp.status = "valid" THEN AccountOk(account)
          ELSE AccountErr("GetAccount")
    /\ accPc' = "done"
    /\ UNCHANGED <<stored, account, response, returned>>
    /\ UNCHANGED <<driverVars, besidesAccount>>

\* new_account posts and reads the response (account.rs:333-368): the
\* material it returns has the key it was given and the URL of the
\* location header.
NewAccount(resp) ==
    /\ accPc = "new_account"
    /\ accRequests' = Append(accRequests,
                             [fn |-> "new_account", req |-> "post"])
    /\ accResult' =
          IF resp.code = 0 THEN AccountErr("NewAccount")
          ELSE IF ~is_success(resp) THEN AccountErr("NewAccount")
          ELSE IF resp.location = "" THEN AccountErr("NewAccount")
          ELSE IF resp.status = "unparsable" THEN AccountErr("NewAccount")
          ELSE IF resp.status = "valid"
               THEN AccountOk(AccountMaterial(
                        keypair_from_pkcs8(RegistrationKey(account)),
                        RegistrationKey(account), resp.location))
          ELSE AccountErr("NewAccount")
    /\ accPc' = "done"
    /\ UNCHANGED <<stored, account, response, returned>>
    /\ UNCHANGED <<driverVars, besidesAccount>>

\* from_json has returned; the caller keeps the material and the JSON it
\* had.
FromJsonReturn ==
    /\ accPc = "done"
    /\ accPc' = "idle"
    /\ returned' = IF accResult.kind = "ok"
                   THEN returned \cup {accResult.material}
                   ELSE returned
    /\ account' = NoMaterial
    /\ response' = NoResponse
    /\ accRequests' = <<>>
    /\ accResult' = NoAccount
    /\ UNCHANGED stored
    /\ UNCHANGED <<driverVars, besidesAccount>>

AccountNext ==
    \/ \E json \in StoredJsons : FromJson(json)
    \/ \E ok \in BOOLEAN : AccNonce(ok)
    \/ \E resp \in Responses : Lookup(resp)
    \/ \E resp \in Responses : UpdateContact(resp)
    \/ \E resp \in Responses : NewAccount(resp)
    \/ FromJsonReturn

\* from_json called again and again, the CA answering anything.
AccountSpec == Init /\ [][AccountNext]_vars

\* The running from_json call has entered fn.
Called(fn) == \E i \in DOMAIN accRequests : accRequests[i].fn = fn

\* from_json has sent nothing after the lookup.
NothingAfterLookup ==
    accRequests = <<[fn |-> "lookup", req |-> "new_nonce"],
                    [fn |-> "lookup", req |-> "post"]>>

\* The material the stored JSON decodes to.
StoredMaterial ==
    AccountMaterial(keypair_from_pkcs8(stored.pkcs8), stored.pkcs8, stored.url)

\* C29: when from_json has returned after a lookup: on 200 with status
\* valid and on 403 it has called update_contact (and not new_account) and
\* what it returns on success is the stored account; on 400 and 404 it has
\* called new_account (and not update_contact); on 200 with another
\* status and on every other status code it has failed with no request
\* after the lookup.
C29_LookupBranches ==
    (accPc = "done" /\ response # NoResponse /\ response.code # 0) =>
       CASE (response.code = 200 /\ response.status = "valid")
            \/ response.code = 403 ->
               /\ Called("update_contact") /\ ~Called("new_account")
               /\ accResult.kind = "ok" => accResult.material = StoredMaterial
         [] response.code \in {400, 404} ->
               Called("new_account") /\ ~Called("update_contact")
         [] OTHER ->
               accResult.kind = "err" /\ NothingAfterLookup

\* from_json has returned the stored account after a 403 and an
\* update_contact.
C29_Witness ==
    /\ accPc = "done"
    /\ response.code = 403
    /\ accResult = AccountOk(StoredMaterial)
    /\ Called("update_contact")

\* C30: when the lookup answered 400 or 404 and from_json returns
\* material, it has the pkcs8 bytes of the stored JSON, their key pair and a
\* URL the new registration gave, not the stored one; and the materials
\* from_json has returned for the same JSON all have that key.
C30_SameKeyReregistered ==
    (accPc = "done" /\ accResult.kind = "ok") =>
       /\ response.code \in {400, 404} =>
             /\ accResult.material.pkcs8 = stored.pkcs8
             /\ accResult.material.keypair = keypair_from_pkcs8(stored.pkcs8)
             /\ accResult.material.url \in {"acct/3", "acct/4"}
       /\ \A m \in returned : m.keypair = accResult.material.keypair

\* from_json has re-registered the same JSON twice, the CA giving two
\* different URLs.
C30_Witness ==
    /\ accPc = "done" /\ accResult.kind = "ok"
    /\ response.code = 404
    /\ \E m \in returned : m.url \notin {stored.url, accResult.material.url}

\* ------------------------------------------------------------ key rollover

\* Key pairs the random generator produces in a run.
MaxGenerated == 2

\* generate_pkcs8_ecdsa_keypair (ecdsa.rs:10-15): the n-th output of
\* SystemRandom; no two outputs are equal, nor equal to a key made before.
generate_pkcs8_ecdsa_keypair(n) == "generated-" \o ToString(n)

\* The materials a caller may hold before any rollover.
HeldMaterials ==
    {AccountMaterial(keypair_from_pkcs8(p), p, u) :
        p \in {"p1", "p2"}, u \in {"acct/1", "acct/2"}}

\* An update_key that hands back the material it was called on.
RolloverMaterialOldKey(a, p) == a

\* The material update_key returns (account.rs:294-298): the generated key
\* and a clone of self.url.
RolloverMaterial(a, p) == AccountMaterial(keypair_from_pkcs8(p), p, a.url)

\* update_key is called on a material the caller holds, one it had or the
\* one the last rollover returned, and generates a key pair
\* (account.rs:263-269).
UpdateKey(m) ==
    /\ rollPc = "idle"
    /\ generated < MaxGenerated
    /\ self' = m
    /\ generated' = generated + 1
    /\ pkcs8' = generate_pkcs8_ecdsa_keypair(generated + 1)
    /\ rollPc' = "new_nonce"
    /\ keyChange' = NoResponse
    /\ rollResult' = NoAccount
    /\ UNCHANGED <<driverVars, besidesRollover>>

\* directory.new_nonce(client).await? (account.rs:270)
RollNonce(ok) ==
    /\ rollPc = "new_nonce"
    /\ IF ok
       THEN rollPc' = "post" /\ UNCHANGED rollResult
       ELSE rollPc' = "done" /\ rollResult' = AccountErr("NewNonce")
    /\ UNCHANGED <<self, pkcs8, keyChange, generated>>
    /\ UNCHANGED <<driverVars, besidesRollover>>

\* The key-change request is posted and its response read
\* (account.rs:283-311).
KeyChange(resp) ==
    /\ rollPc = "post"
    /\ keyChange' = resp
    /\ rollResult' =
          IF resp.code = 0 THEN AccountErr("ChangeAccountKey")
          ELSE IF ~is_success(resp) THEN AccountErr("ChangeAccountKey")
          ELSE IF resp.status = "unparsable" THEN AccountErr("ChangeAccountKey")
          ELSE IF resp.status = "valid"
               THEN AccountOk(RolloverMaterial(self, pkcs8))
          ELSE AccountErr("ChangeAccountKey")
    /\ rollPc' = "done"
    /\ UNCHANGED <<self, pkcs8, generated>>
    /\ UNCHANGED <<driverVars, besidesRollover>>

\* update_key has returned: its locals are gone, the caller has the result.
UpdateKeyReturn ==
    /\ rollPc = "done"
    /\ rollPc' = "idle"
    /\ self' = NoMaterial
    /\ pkcs8' = ""
    /\ keyChange' = NoResponse
    /\ UNCHANGED <<rollResult, generated>>
    /\ UNCHANGED <<driverVars, besidesRollover>>

RolloverNext ==
    \/ \E m \in HeldMaterials \cup
                 (IF rollResult.kind = "ok" THEN {rollResult.material} ELSE {}) :
          UpdateKey(m)
    \/ \E ok \in BOOLEAN : RollNonce(ok)
    \/ \E resp \in Responses : KeyChange(resp)
    \/ UpdateKeyReturn

\* Key rollovers one after the other, the CA answering anything.
RolloverSpec == Init /\ [][RolloverNext]_vars

\* C31: update_key returns material exactly when the CA answered the
\* key-change request with success and account status valid; that material
\* has the URL of the material it was called on and the key pair generated
\* in the call, which differs from the original one; on a failure no
\* material is returned; and the material it was called on does not change
\* while the call runs.
C31_UpdateKey ==
    /\ [](rollPc = "done" =>
            /\ (rollResult.kind = "ok")
                  <=> (is_success(keyChange) /\ keyChange.status = "valid")
            /\ rollResult.kind = "ok" =>
                  /\ rollResult.material.url = self.url
                  /\ rollResult.material.pkcs8 = pkcs8
                  /\ rollResult.material.keypair = keypair_from_pkcs8(pkcs8)
                  /\ rollResult.material.keypair # self.keypair
            /\ rollResult.kind # "ok" =>
                  rollResult.kind = "err" /\ rollResult.material = NoMaterial)
    /\ [][(rollPc # "idle" /\ rollPc' # "idle") => self' = self]_vars

\* A second rollover, of the material the first one returned, has
\* succeeded.
C31_Witness ==
    /\ rollPc = "done"
    /\ rollResult.kind = "ok"
    /\ self.pkcs8 = generate_pkcs8_ecdsa_keypair(1)
    /\ rollResult.material.pkcs8 = generate_pkcs8_ecdsa_keypair(2)

\* ------------------------------------------------------------ serialization

\* The pkcs8 byte strings and the URLs of the materials serialized: bytes
\* are numbers below 256, a URL is a sequence of characters, among them the
\* two that JSON escapes.
Bytes == {0, 77, 255}
ByteStrings == UNION {[1..n -> Bytes] : n \in 0..3}
Chars == {"a", "/", "QUOTE", "BACKSLASH"}
Urls == UNION {[1..n -> Chars] : n \in 0..2}

\* URL_SAFE_NO_PAD.encode (account.rs:376-377): three bytes give four
\* characters, written here as their indices in the alphabet; one or two
\* bytes left over give two or three characters, no padding.
RECURSIVE base64_encode(_)
base64_encode(b) ==
    IF Len(b) = 0 THEN <<>>
    ELSE IF Len(b) = 1
    THEN <<b[1] \div 4, (b[1] % 4) * 16>>
    ELSE IF Len(b) = 2
    THEN <<b[1] \div 4, (b[1] % 4) * 16 + b[2] \div 16, (b[2] % 16) * 4>>
    ELSE <<b[1] \div 4, (b[1] % 4) * 16 + b[2] \div 16,
           (b[2] % 16) * 4 + b[3] \div 64, b[3] % 64>>
         \o base64_encode(SubSeq(b, 4, Len(b)))

\* URL_SAFE_NO_PAD.decode (account.rs:381-385): the inverse; a single
\* character left over, or left-over bits that are not zero, is an error,
\* written <<-1>>.
RECURSIVE base64_decode(_)
base64_decode(c) ==
    IF Len(c) = 0 THEN <<>>
    ELSE IF Len(c) = 1 THEN <<-1>>
    ELSE IF Len(c) = 2
    THEN IF c[2] % 16 = 0 THEN <<c[1] * 4 + c[2] \div 16>> ELSE <<-1>>
    ELSE IF Len(c) = 3
    THEN IF c[3] % 4 = 0
         THEN <<c[1] * 4 + c[2] \div 16, (c[2] % 16) * 16 + c[3] \div 4>>
         ELSE <<-1>>
    ELSE LET rest == base64_decode(SubSeq(c, 5, Len(c)))
         IN IF rest = <<-1>> THEN <<-1>>
            ELSE <<c[1] * 4 + c[2] \div 16, (c[2] % 16) * 16 + c[3] \div 4,
                   (c[3] % 4) * 64 + c[4]>> \o rest

\* serde_json writes a string: a quote and a backslash get a backslash in
\* front.
RECURSIVE json_escape(_)
json_escape(u) ==
    IF Len(u) = 0 THEN <<>>
    ELSE (IF u[1] \in {"QUOTE", "BACKSLASH"} THEN <<"BACKSLASH", u[1]>>
          ELSE <<u[1]>>) \o json_escape(Tail(u))

\* serde_json reads a string: a backslash stands for the character after
\* it.
RECURSIVE json_unescape(_)
json_unescape(t) ==
    IF Len(t) = 0 THEN <<>>
    ELSE IF t[1] = "BACKSLASH" /\ Len(t) >= 2
    THEN <<t[2]>> \o json_unescape(SubSeq(t, 3, Len(t)))
    ELSE <<t[1]>> \o json_unescape(Tail(t))

\* A Serialize that does not skip the key pair.
to_json_with_keypair(a) ==
    [keypair |-> a.keypair,
     pkcs8 |-> base64_encode(a.pkcs8),
     url |-> json_escape(a.url)]

\* AccountMaterial::to_json (account.rs:76-78) with the derived Serialize
\* (account.rs:16-24): keypair is skipped, pkcs8 goes through base64.
to_json(a) ==
    [pkcs8 |-> base64_encode(a.pkcs8), url |-> json_escape(a.url)]

\* The decoding of from_json (account.rs:113-115): the members pkcs8 and
\* url of a PackedAccountMaterial are read, other members are ignored, and
\* the key pair is rebuilt from the pkcs8 bytes (account.rs:62-71).
from_str(text) ==
    IF ~({"pkcs8", "url"} \subseteq DOMAIN text)
    THEN AccountErr("DeserializeAccount")
    ELSE LET bytes == base64_decode(text.pkcs8)
         IN IF bytes = <<-1>> THEN AccountErr("DeserializeAccount")
            ELSE AccountOk(AccountMaterial(keypair_from_pkcs8(bytes), bytes,
                                           json_unescape(text.url)))

\* Any account material.
CodecInit ==
    /\ published = from_client_and_domain_keys(GivenAtConstruction)
    /\ wmap = published
    /\ DriverIdle
    /\ TransportIdle /\ RequestsIdle /\ AccountIdle /\ RolloverIdle
    /\ material \in {AccountMaterial(keypair_from_pkcs8(b), b, u) :
                        b \in ByteStrings, u \in Urls}
    /\ jsonText = NoText
    /\ decoded = NoAccount

\* to_json is called on it.
ToJson ==
    /\ jsonText = NoText
    /\ jsonText' = to_json(material)
    /\ UNCHANGED <<material, decoded>>
    /\ UNCHANGED <<driverVars, besidesCodec>>

\* The text is decoded.
Decode ==
    /\ jsonText # NoText
    /\ decoded = NoAccount
    /\ decoded' = from_str(jsonText)
    /\ UNCHANGED <<material, jsonText>>
    /\ UNCHANGED <<driverVars, besidesCodec>>

CodecNext == ToJson \/ Decode

CodecSpec == CodecInit /\ [][CodecNext]_vars

\* C32: decoding to_json(a) gives material with the pkcs8 bytes and the URL
\* of a and the key pair rebuilt from those bytes, and the serialized form
\* has the members pkcs8 and url and no other.
C32_RoundTrip ==
    /\ jsonText # NoText => DOMAIN jsonText = {"pkcs8", "url"}
    /\ decoded # NoAccount =>
          /\ decoded.kind = "ok"
          /\ decoded.material.pkcs8 = material.pkcs8
          /\ decoded.material.url = material.url
          /\ decoded.material.keypair = keypair_from_pkcs8(material.pkcs8)

\* A material whose pkcs8 does not fill a base64 group and whose URL has a
\* character JSON escapes has gone through the round trip.
C32_Witness ==
    /\ decoded.kind = "ok"
    /\ Len(material.pkcs8) = 2
    /\ \E i \in DOMAIN material.url : material.url[i] = "BACKSLASH"

\* ------------------------------------------------------------ authorization phase

\* C33: computing the key authorization of a challenge never fails: the
\* step that builds the challenge certificate for a domain of the resolver
\* does not panic.
C33_KeyAuthorizationDefined ==
    [][(/\ pc = "install" /\ pc' # "install"
        /\ ti <= Len(targets)
        /\ targets[ti] \in DOMAIN wmap)
       => retres'.kind # "panic"]_vars

\* C34: the challenges are installed and accepted one after the other in
\* order, the wait starts only when all of them have been, and a wait for
\* the challenges of several domains, each of which has had its handshake,
\* in whatever order, goes on to the order poll.
C34_SequentialInstallConcurrentWait ==
    /\ [][(pc = "accept" /\ pc' = "install") => ti' = ti + 1]_vars
    /\ [](pc = "wait" => ti > Len(targets))
    /\ [][(/\ pc = "wait" /\ pc' # "wait"
           /\ Cardinality({targets[c] : c \in pending}) >= 2
           /\ \A c \in pending : targets[c] \in shaken)
          => pc' = "poll"]_vars

\* C35: when the order is invalid, as new_order returned it or as fetched
\* after the wait, retry fails with InvalidOrder naming the order's
\* identifiers, the call returns that error, and no finalize or download
\* request follows.
C35_InvalidOrder ==
    /\ [][(\/ pc = "retry" /\ orderStatus = "invalid" /\ Retry
           \/ pc = "poll" /\ Poll("invalid"))
          => /\ retres'.kind = "err"
             /\ retres'.err = "InvalidOrder"
             /\ retres'.domains = Domains]_vars
    /\ [][(pc = "process" /\ pc' # "process" /\ retres.err = "InvalidOrder")
          => /\ pc' = "idle"
             /\ result'.err = "InvalidOrder"
             /\ result'.domains = Domains]_vars
    /\ [](retres.err = "InvalidOrder"
            => pc \in {"drop_guard", "drop_receivers", "process"})

\* The order fetched after the wait was invalid.
C35_Witness ==
    /\ pc = "drop_guard"
    /\ guardHeld
    /\ retres.err = "InvalidOrder"
    /\ retres.domains = Domains
    /\ observed = "invalid"

\* C36: the step that handles a tls-alpn-01 challenge of a pending
\* authorization whose identifier is no key of the resolver map ends with a
\* typed error or goes on; it does not panic.
C36_UnknownIdentifier ==
    [][(/\ pc = "install" /\ pc' # "install"
        /\ ti <= Len(targets)
        /\ targets[ti] \notin DOMAIN wmap)
       => retres'.kind # "panic"]_vars

\* C37: until the wait ends, the notifier in the writer's entry of the
\* domain of every awaited challenge is the sender of that challenge's
\* receiver.
C37_ReceiversConnected ==
    pc \in {"install", "accept", "wait"} =>
       \A c \in pending :
          /\ targets[c] \in DOMAIN wmap
          /\ wmap[targets[c]].notifier = LiveNotifier(c)

\* C38: an acme-tls/1 handshake that reaches resolve before the wait, for
\* the domain of a challenge whose key has been installed, puts a value
\* into the channel of that challenge.
C38_EarlyHandshakeBuffered ==
    [][(/\ pc \in {"install", "accept"}
        /\ ResolveStep
        /\ hello'.acme
        /\ \E c \in 1..Len(targets) :
              /\ c < ti \/ (c = ti /\ pc = "accept")
              /\ targets[c] = hello'.sni
              /\ tx[c] = "held")
       => \E c \in 1..Len(targets) :
             /\ targets[c] = hello'.sni
             /\ tx[c] = "held"
             /\ buf'[c] = 1]_vars

\* ------------------------------------------------------------ retried bodies

\* C39: every attempt of a post_jose carries the body, hence the nonce, of
\* its first attempt, and between the attempts no nonce is fetched and no
\* JWS is built.
C39_SameBodyOnRetry ==
    /\ [](method = "post_jose" =>
            \A i \in 1..Len(httpSent) :
               /\ httpSent[i] = httpSent[1]
               /\ httpSent[i].nonce = httpBody.nonce)
    /\ [][(httpPc \in {"send", "delay"})
          => (issued' = issued /\ built' = built)]_vars

\* A post_jose has sent its body again after a failed attempt.
C39_Witness ==
    /\ method = "post_jose"
    /\ Len(httpSent) >= 2
    /\ httpLog[1] \in {"err", "503", "504"}
    /\ httpSent[2] = httpSent[1]

=============================================================================
